---- MODULE Spec2Model ----
(***************************************************************************)
(* grpc-proxier: the per-request pipeline of src/proxy.rs                  *)
(* (authenticate -> authorize -> forward -> classify -> translate ->       *)
(* record metrics), with the pure functions of src/auth.rs and             *)
(* src/error.rs.  Text is modelled as sequences of bytes (0..255), so      *)
(* that base64 decoding, UTF-8 validation, percent-encoding and URI        *)
(* parsing are computed, not assumed.                                      *)
(***************************************************************************)
EXTENDS Bags, FiniteSets, Integers, Sequences, TLC

\* Number of inbound requests handled concurrently in one run.
NumRequests == 2

\* connections the listener accepts
NumConnections == 2

\* worker threads of the runtime: one per core of the host
MaxWorkers == 2

\* longest text percent_encode is applied to
MaxTextLen == 3

\* failed accepts on the client-facing listener in one run
MaxAcceptErrors == 2

Requests == 1..NumRequests

Connections == 1..NumConnections

(***************************************************************************)
(* String literals of the source, as bytes.                                *)
(***************************************************************************)
\* "authorization"
Str_authorization == <<97, 117, 116, 104, 111, 114, 105, 122, 97, 116, 105, 111, 110>>
\* "content-type"
Str_content_type == <<99, 111, 110, 116, 101, 110, 116, 45, 116, 121, 112, 101>>
\* "grpc-status"
Str_grpc_status == <<103, 114, 112, 99, 45, 115, 116, 97, 116, 117, 115>>
\* "grpc-message"
Str_grpc_message == <<103, 114, 112, 99, 45, 109, 101, 115, 115, 97, 103, 101>>
\* "application/grpc"
Str_application_grpc == <<97, 112, 112, 108, 105, 99, 97, 116, 105, 111, 110, 47, 103, 114, 112, 99>>
\* "Basic "
Str_Basic == <<66, 97, 115, 105, 99, 32>>
\* "*"
Str_star == <<42>>
\* "Anonymous"
Str_Anonymous == <<65, 110, 111, 110, 121, 109, 111, 117, 115>>
\* "_unauthenticated"
Str_unauthenticated == <<95, 117, 110, 97, 117, 116, 104, 101, 110, 116, 105, 99, 97, 116, 101, 100>>
\* "_error"
Str_error == <<95, 101, 114, 114, 111, 114>>
\* "unknown"
Str_unknown == <<117, 110, 107, 110, 111, 119, 110>>
\* "http://"
Str_http == <<104, 116, 116, 112, 58, 47, 47>>
\* "missing"
Str_missing == <<109, 105, 115, 115, 105, 110, 103>>
\* "invalid"
Str_invalid == <<105, 110, 118, 97, 108, 105, 100>>
\* "denied"
Str_denied == <<100, 101, 110, 105, 101, 100>>
\* "0"
Str_zero == <<48>>
\* "missing authorization header"
Str_msg_AuthMissing == <<109, 105, 115, 115, 105, 110, 103, 32, 97, 117, 116, 104, 111, 114, 105, 122, 97, 116, 105, 111, 110, 32, 104, 101, 97, 100, 101, 114>>
\* "invalid credentials"
Str_msg_AuthInvalid == <<105, 110, 118, 97, 108, 105, 100, 32, 99, 114, 101, 100, 101, 110, 116, 105, 97, 108, 115>>
\* "call not permitted: "
Str_msg_AuthDenied == <<99, 97, 108, 108, 32, 110, 111, 116, 32, 112, 101, 114, 109, 105, 116, 116, 101, 100, 58, 32>>
\* "upstream connection failed: "
Str_msg_UpstreamConnect == <<117, 112, 115, 116, 114, 101, 97, 109, 32, 99, 111, 110, 110, 101, 99, 116, 105, 111, 110, 32, 102, 97, 105, 108, 101, 100, 58, 32>>
\* "upstream request failed: "
Str_msg_UpstreamRequest == <<117, 112, 115, 116, 114, 101, 97, 109, 32, 114, 101, 113, 117, 101, 115, 116, 32, 102, 97, 105, 108, 101, 100, 58, 32>>
\* "failed to load config: "
Str_msg_ConfigLoad == <<102, 97, 105, 108, 101, 100, 32, 116, 111, 32, 108, 111, 97, 100, 32, 99, 111, 110, 102, 105, 103, 58, 32>>
\* "failed to load credentials: "
Str_msg_CredentialsLoad == <<102, 97, 105, 108, 101, 100, 32, 116, 111, 32, 108, 111, 97, 100, 32, 99, 114, 101, 100, 101, 110, 116, 105, 97, 108, 115, 58, 32>>
\* "failed to bind server: "
Str_msg_ServerBind == <<102, 97, 105, 108, 101, 100, 32, 116, 111, 32, 98, 105, 110, 100, 32, 115, 101, 114, 118, 101, 114, 58, 32>>
\* "no config for user '"
Str_no_config_for_user == <<110, 111, 32, 99, 111, 110, 102, 105, 103, 32, 102, 111, 114, 32, 117, 115, 101, 114, 32, 39>>
\* "'"
Str_quote == <<39>>
\* "user '"
Str_user == <<117, 115, 101, 114, 32, 39>>
\* "' not allowed to call '"
Str_not_allowed_to_call == <<39, 32, 110, 111, 116, 32, 97, 108, 108, 111, 119, 101, 100, 32, 116, 111, 32, 99, 97, 108, 108, 32, 39>>
\* "invalid upstream URI: "
Str_invalid_upstream_URI == <<105, 110, 118, 97, 108, 105, 100, 32, 117, 112, 115, 116, 114, 101, 97, 109, 32, 85, 82, 73, 58, 32>>
\* "invalid uri character"
Str_invalid_uri_character == <<105, 110, 118, 97, 108, 105, 100, 32, 117, 114, 105, 32, 99, 104, 97, 114, 97, 99, 116, 101, 114>>
\* "invalid format"
Str_invalid_format == <<105, 110, 118, 97, 108, 105, 100, 32, 102, 111, 114, 109, 97, 116>>

\* 'alice'
Txt_alice == <<97, 108, 105, 99, 101>>
\* 'bob'
Txt_bob == <<98, 111, 98>>
\* 'carol'
Txt_carol == <<99, 97, 114, 111, 108>>
\* 'mallory'
Txt_mallory == <<109, 97, 108, 108, 111, 114, 121>>
\* 'é'
Txt_eacute == <<195, 169>>
\* 'pw'
Txt_pw == <<112, 119>>
\* 'p:w'
Txt_p_w == <<112, 58, 119>>
\* 'x'
Txt_x == <<120>>
\* '/pkg.Svc/Get'
Txt_pkg_Get == <<47, 112, 107, 103, 46, 83, 118, 99, 47, 71, 101, 116>>
\* '/pkg.Svc/Delete'
Txt_pkg_Delete == <<47, 112, 107, 103, 46, 83, 118, 99, 47, 68, 101, 108, 101, 116, 101>>
\* '//pkg.Svc/Get'
Txt_pkg_Get2 == <<47, 47, 112, 107, 103, 46, 83, 118, 99, 47, 71, 101, 116>>
\* '/pkg.svc/get'
Txt_pkg_get_lower == <<47, 112, 107, 103, 46, 115, 118, 99, 47, 103, 101, 116>>
\* '/a/b/c'
Txt_a_b_c == <<47, 97, 47, 98, 47, 99>>
\* 'pkg.Svc/Get'
Txt_call_Get == <<112, 107, 103, 46, 83, 118, 99, 47, 71, 101, 116>>
\* 'pkg.Svc/Delete'
Txt_call_Delete == <<112, 107, 103, 46, 83, 118, 99, 47, 68, 101, 108, 101, 116, 101>>
\* 'x=1'
Txt_q == <<120, 61, 49>>
\* 'POST'
Txt_POST == <<80, 79, 83, 84>>
\* 'te'
Txt_te == <<116, 101>>
\* 'trailers'
Txt_trailers == <<116, 114, 97, 105, 108, 101, 114, 115>>
\* '\x00\x00\x00\x00\x01*'
Txt_body == <<0, 0, 0, 0, 1, 42>>
\* 'up:50'
Txt_up_good == <<117, 112, 58, 53, 48>>
\* 'bad host'
Txt_up_bad == <<98, 97, 100, 32, 104, 111, 115, 116>>
\* 'Bearer abc'
Txt_Bearer == <<66, 101, 97, 114, 101, 114, 32, 97, 98, 99>>
\* '5'
Txt_five == <<53>>
\* 'not found'
Txt_not_found == <<110, 111, 116, 32, 102, 111, 117, 110, 100>>
\* 'connection refused'
Txt_refused == <<99, 111, 110, 110, 101, 99, 116, 105, 111, 110, 32, 114, 101, 102, 117, 115, 101, 100>>
\* raw bytes a"\n then U+00E9
Txt_nasty == <<97, 32, 34, 98, 34, 10, 195, 169>>
\* header value with a byte outside visible ASCII
Hdr_opaque == <<66, 97, 115, 105, 99, 32, 255, 254>>
\* "Basic !!!!"
Hdr_bad_b64 == <<66, 97, 115, 105, 99, 32, 33, 33, 33, 33>>
\* "Basic " ++ base64(b'\xff:a') ++ b''
Hdr_bad_utf8 == <<66, 97, 115, 105, 99, 32, 47, 122, 112, 104>>
\* "Basic " ++ base64(b'alicepw') ++ b''
Hdr_no_colon == <<66, 97, 115, 105, 99, 32, 89, 87, 120, 112, 89, 50, 86, 119, 100, 119, 61, 61>>
\* "Basic " ++ base64(b'bob:pw') ++ b''
Hdr_bob == <<66, 97, 115, 105, 99, 32, 89, 109, 57, 105, 79, 110, 66, 51>>
\* "Basic " ++ base64(b'alice:wrong') ++ b''
Hdr_alice_wrong == <<66, 97, 115, 105, 99, 32, 89, 87, 120, 112, 89, 50, 85, 54, 100, 51, 74, 118, 98, 109, 99, 61>>
\* "Basic " ++ base64(b'alice:pw') ++ b''
Hdr_alice == <<66, 97, 115, 105, 99, 32, 89, 87, 120, 112, 89, 50, 85, 54, 99, 72, 99, 61>>
\* "Basic " ++ base64(b'carol:p:w') ++ b' \t'
Hdr_carol == <<66, 97, 115, 105, 99, 32, 89, 50, 70, 121, 98, 50, 119, 54, 99, 68, 112, 51, 32, 9>>
\* "Basic " ++ base64(b'\xc3\xa9:x') ++ b''
Hdr_eacute == <<66, 97, 115, 105, 99, 32, 119, 54, 107, 54, 101, 65, 61, 61>>
\* "Basic " ++ base64(b'mallory:pw') ++ b''
Hdr_mallory == <<66, 97, 115, 105, 99, 32, 98, 87, 70, 115, 98, 71, 57, 121, 101, 84, 112, 119, 100, 119, 61, 61>>
\* "CONFIG_PATH env var not set"
Str_CONFIG_PATH_not_set == <<67, 79, 78, 70, 73, 71, 95, 80, 65, 84, 72, 32, 101, 110, 118, 32, 118, 97, 114, 32, 110, 111, 116, 32, 115, 101, 116>>
\* "CREDENTIALS_FILE env var not set"
Str_CREDENTIALS_FILE_not_set == <<67, 82, 69, 68, 69, 78, 84, 73, 65, 76, 83, 95, 70, 73, 76, 69, 32, 101, 110, 118, 32, 118, 97, 114, 32, 110, 111, 116, 32, 115, 101, 116>>
\* "proxy:80: address in use"
Txt_bind_refused == <<112, 114, 111, 120, 121, 58, 56, 48, 58, 32, 97, 100, 100, 114, 101, 115, 115, 32, 105, 110, 32, 117, 115, 101>>
\* "metrics proxy:90: address in use"
Txt_metrics_refused == <<109, 101, 116, 114, 105, 99, 115, 32, 112, 114, 111, 120, 121, 58, 57, 48, 58, 32, 97, 100, 100, 114, 101, 115, 115, 32, 105, 110, 32, 117, 115, 101>>
\* "connection reset"
Txt_reset == <<99, 111, 110, 110, 101, 99, 116, 105, 111, 110, 32, 114, 101, 115, 101, 116>>
\* "noslash"
Txt_noslash == <<110, 111, 115, 108, 97, 115, 104>>
\* "/pkg.Svc/Method"
Txt_pkg_Method == <<47, 112, 107, 103, 46, 83, 118, 99, 47, 77, 101, 116, 104, 111, 100>>
\* "proxy:80"
Txt_proxy == <<112, 114, 111, 120, 121, 58, 56, 48>>

(***************************************************************************)
(* Helpers of the Rust standard library used by the source.                *)
(***************************************************************************)
\* Option<T>: <<>> is None, <<v>> is Some(v).  Result<T, E>: records.
None == <<>>

Some(v) == <<v>>

\* s.starts_with(p)
starts_with(s, p) == Len(s) >= Len(p) /\ SubSeq(s, 1, Len(p)) = p

\* s.strip_prefix(p): Some(rest) when s starts with p, else None
strip_prefix(s, p) ==
    IF starts_with(s, p) THEN Some(SubSeq(s, Len(p) + 1, Len(s))) ELSE None

\* position of the first byte c of s, 0 when absent
find(s, c) ==
    IF \E i \in 1..Len(s) : s[i] = c
    THEN CHOOSE i \in 1..Len(s) : s[i] = c /\ \A j \in 1..(i - 1) : s[j] # c
    ELSE 0

\* position of the last byte c of s, 0 when absent
rfind(s, c) ==
    IF \E i \in 1..Len(s) : s[i] = c
    THEN CHOOSE i \in 1..Len(s) : s[i] = c /\ \A j \in (i + 1)..Len(s) : s[j] # c
    ELSE 0

\* s.split_once(c): Some((before, after)) around the first c
split_once(s, c) ==
    LET i == find(s, c)
    IN IF i = 0 THEN None
       ELSE Some(<<SubSeq(s, 1, i - 1), SubSeq(s, i + 1, Len(s))>>)

\* s.rsplit_once(c): Some((before, after)) around the last c
rsplit_once(s, c) ==
    LET i == rfind(s, c)
    IN IF i = 0 THEN None
       ELSE Some(<<SubSeq(s, 1, i - 1), SubSeq(s, i + 1, Len(s))>>)

\* char::is_whitespace on an ASCII byte
is_whitespace(b) == b \in {9, 10, 11, 12, 13, 32}

\* s.trim(): drop leading and trailing whitespace
trim(s) ==
    IF \A i \in 1..Len(s) : is_whitespace(s[i]) THEN <<>>
    ELSE LET lo == CHOOSE i \in 1..Len(s) :
                      ~is_whitespace(s[i]) /\ \A j \in 1..(i - 1) : is_whitespace(s[j])
             hi == CHOOSE i \in 1..Len(s) :
                      ~is_whitespace(s[i]) /\ \A j \in (i + 1)..Len(s) : is_whitespace(s[j])
         IN SubSeq(s, lo, hi)

\* u8::to_string(): decimal digits, no leading zero
to_string(n) ==
    IF n < 10 THEN <<48 + n>>
    ELSE IF n < 100 THEN <<48 + (n \div 10), 48 + (n % 10)>>
    ELSE <<48 + (n \div 100), 48 + ((n \div 10) % 10), 48 + (n % 10)>>

\* String::from_utf8: is bs (from position i on) well-formed UTF-8 ?
RECURSIVE utf8_from(_, _)
utf8_from(bs, i) ==
    LET n == Len(bs)
        cont(k) == k <= n /\ bs[k] \in 128..191
    IN IF i > n THEN TRUE
       ELSE IF bs[i] < 128 THEN utf8_from(bs, i + 1)
       ELSE IF bs[i] \in 194..223 THEN cont(i + 1) /\ utf8_from(bs, i + 2)
       ELSE IF bs[i] = 224
            THEN i + 1 <= n /\ bs[i + 1] \in 160..191 /\ cont(i + 2) /\ utf8_from(bs, i + 3)
       ELSE IF bs[i] = 237
            THEN i + 1 <= n /\ bs[i + 1] \in 128..159 /\ cont(i + 2) /\ utf8_from(bs, i + 3)
       ELSE IF bs[i] \in 225..239
            THEN cont(i + 1) /\ cont(i + 2) /\ utf8_from(bs, i + 3)
       ELSE IF bs[i] = 240
            THEN i + 1 <= n /\ bs[i + 1] \in 144..191 /\ cont(i + 2) /\ cont(i + 3)
                 /\ utf8_from(bs, i + 4)
       ELSE IF bs[i] \in 241..243
            THEN cont(i + 1) /\ cont(i + 2) /\ cont(i + 3) /\ utf8_from(bs, i + 4)
       ELSE IF bs[i] = 244
            THEN i + 1 <= n /\ bs[i + 1] \in 128..143 /\ cont(i + 2) /\ cont(i + 3)
                 /\ utf8_from(bs, i + 4)
       ELSE FALSE

from_utf8(bs) == IF utf8_from(bs, 1) THEN Some(bs) ELSE None

(***************************************************************************)
(* base64::engine::general_purpose::STANDARD.decode: the standard          *)
(* alphabet, canonical padding required, non-zero trailing bits rejected.  *)
(***************************************************************************)
b64_value(c) ==
    IF c \in 65..90 THEN c - 65
    ELSE IF c \in 97..122 THEN c - 71
    ELSE IF c \in 48..57 THEN c + 4
    ELSE IF c = 43 THEN 62
    ELSE IF c = 47 THEN 63
    ELSE -1

\* one quantum of four symbols; last = it is the final quantum
b64_quantum(q, last) ==
    LET a == b64_value(q[1])
        b == b64_value(q[2])
        c == b64_value(q[3])
        d == b64_value(q[4])
        b1 == a * 4 + (b \div 16)
        b2 == (b % 16) * 16 + (c \div 4)
        b3 == (c % 4) * 64 + d
    IN IF a < 0 \/ b < 0 THEN None
       ELSE IF last /\ q[3] = 61 /\ q[4] = 61
            THEN IF b % 16 = 0 THEN Some(<<b1>>) ELSE None
       ELSE IF c < 0 THEN None
       ELSE IF last /\ q[4] = 61
            THEN IF c % 4 = 0 THEN Some(<<b1, b2>>) ELSE None
       ELSE IF d < 0 THEN None
       ELSE Some(<<b1, b2, b3>>)

RECURSIVE b64_from(_, _)
b64_from(s, i) ==
    IF i > Len(s) THEN Some(<<>>)
    ELSE LET head == b64_quantum(SubSeq(s, i, i + 3), i + 3 = Len(s))
             tail == b64_from(s, i + 4)
         IN IF head = None \/ tail = None THEN None
            ELSE Some(head[1] \o tail[1])

STANDARD_decode(s) == IF Len(s) % 4 # 0 THEN None ELSE b64_from(s, 1)

(***************************************************************************)
(* http crate: header values, header maps, URI parsing.                    *)
(***************************************************************************)
\* HeaderValue construction accepts bytes >= 32 except DEL, and TAB
header_value_valid(v) == \A i \in 1..Len(v) : (v[i] >= 32 /\ v[i] # 127) \/ v[i] = 9

\* HeaderValue::to_str().ok(): Some only for visible ASCII (and TAB)
to_str(v) ==
    IF \A i \in 1..Len(v) : v[i] \in 32..126 \/ v[i] = 9 THEN Some(v) ELSE None

\* HeaderMap::get(name): the first value stored under name
headers_get(headers, name) ==
    IF \E i \in 1..Len(headers) : headers[i][1] = name
    THEN Some(headers[CHOOSE i \in 1..Len(headers) :
                  headers[i][1] = name /\ \A j \in 1..(i - 1) : headers[j][1] # name][2])
    ELSE None

\* HeaderMap::remove(name): drops every value stored under name
headers_remove_first(headers, name) ==
    IF \E i \in 1..Len(headers) : headers[i][1] = name
    THEN LET k == CHOOSE i \in 1..Len(headers) :
                      headers[i][1] = name /\ \A j \in 1..(i - 1) : headers[j][1] # name
         IN SubSeq(headers, 1, k - 1) \o SubSeq(headers, k + 1, Len(headers))
    ELSE headers

headers_remove(headers, name) ==
    LET keep(h) == h[1] # name
    IN SelectSeq(headers, keep)

\* bytes the URI parser accepts in an authority
authority_char(b) ==
    b \in 33..126 /\ b \notin {34, 35, 47, 60, 62, 63, 92, 94, 96, 123, 124, 125}

\* bytes the URI parser accepts in a path
path_char(b) ==
    b \in ({33, 34, 61, 123, 124, 125, 126} \cup (36..59) \cup (64..95) \cup (97..122))

\* bytes the URI parser accepts in a query
query_char(b) == b \in ({33, 61} \cup (36..59) \cup (63..126))

Ok(v) == [ok |-> TRUE, val |-> v]

Err(e) == [ok |-> FALSE, err |-> e]

\* "http://{authority}{path}[?query][#fragment]".parse::<Uri>()
parse_uri(s) ==
    LET checked(authority, path, query) ==
            IF \E i \in 1..Len(authority) : ~authority_char(authority[i])
            THEN Err(Str_invalid_uri_character)
            ELSE IF authority = <<>>
                    \/ Cardinality({i \in 1..Len(authority) : authority[i] = 58}) > 1
            THEN Err(Str_invalid_format)
            ELSE IF (\E i \in 1..Len(path) : ~path_char(path[i]))
                    \/ (query # None /\ \E i \in 1..Len(query[1]) : ~query_char(query[1][i]))
            THEN Err(Str_invalid_uri_character)
            ELSE Ok([scheme |-> Str_http, authority |-> authority,
                     path |-> path, query |-> query])
        split_query(authority, pq, qm) ==
            IF qm = 0 THEN checked(authority, pq, None)
            ELSE checked(authority, SubSeq(pq, 1, qm - 1), Some(SubSeq(pq, qm + 1, Len(pq))))
        drop_fragment(authority, pq, hash) ==
            IF hash = 0 THEN split_query(authority, pq, find(pq, 63))
            ELSE split_query(authority, SubSeq(pq, 1, hash - 1),
                             find(SubSeq(pq, 1, hash - 1), 63))
        split_authority(r, aend) ==
            drop_fragment(SubSeq(r, 1, aend - 1), SubSeq(r, aend, Len(r)),
                          find(SubSeq(r, aend, Len(r)), 35))
        authority_end(r, stops) ==
            IF stops = {} THEN Len(r) + 1 ELSE CHOOSE i \in stops : \A j \in stops : i <= j
        after_scheme(r) ==
            split_authority(r, authority_end(r, {i \in 1..Len(r) : r[i] \in {35, 47, 63}}))
        scheme(rest) == IF rest = None THEN Err(Str_invalid_format) ELSE after_scheme(rest[1])
    IN scheme(strip_prefix(s, Str_http))

(***************************************************************************)
(* src/error.rs                                                            *)
(***************************************************************************)
ErrorKinds ==
    {"ConfigLoad", "CredentialsLoad", "AuthMissing", "AuthInvalid", "AuthDenied",
     "UpstreamConnect", "UpstreamRequest", "ServerBind"}

ProxyError(kind, detail) == [kind |-> kind, detail |-> detail]

AuthMissing == ProxyError("AuthMissing", <<>>)

AuthInvalid == ProxyError("AuthInvalid", <<>>)

\* #[error("...")]: the Display text of an error
Display(e) ==
    CASE e.kind = "ConfigLoad" -> Str_msg_ConfigLoad \o e.detail
      [] e.kind = "CredentialsLoad" -> Str_msg_CredentialsLoad \o e.detail
      [] e.kind = "AuthMissing" -> Str_msg_AuthMissing
      [] e.kind = "AuthInvalid" -> Str_msg_AuthInvalid
      [] e.kind = "AuthDenied" -> Str_msg_AuthDenied \o e.detail
      [] e.kind = "UpstreamConnect" -> Str_msg_UpstreamConnect \o e.detail
      [] e.kind = "UpstreamRequest" -> Str_msg_UpstreamRequest \o e.detail
      [] e.kind = "ServerBind" -> Str_msg_ServerBind \o e.detail

grpc_status_code_swapped(e) ==
    CASE e.kind \in {"AuthMissing", "AuthInvalid"} -> 16
      [] e.kind = "AuthDenied" -> 7
      [] e.kind = "UpstreamConnect" -> 13
      [] e.kind \in {"UpstreamRequest", "ConfigLoad", "CredentialsLoad", "ServerBind"} -> 14

grpc_status_code(e) ==
    CASE e.kind \in {"AuthMissing", "AuthInvalid"} -> 16
      [] e.kind = "AuthDenied" -> 7
      [] e.kind = "UpstreamConnect" -> 14
      [] e.kind \in {"UpstreamRequest", "ConfigLoad", "CredentialsLoad", "ServerBind"} -> 13

auth_failure_reason_no_denied(e) ==
    CASE e.kind = "AuthMissing" -> Str_missing
      [] e.kind = "AuthInvalid" -> Str_invalid
      [] OTHER -> Str_unknown

auth_failure_reason(e) ==
    CASE e.kind = "AuthMissing" -> Str_missing
      [] e.kind = "AuthInvalid" -> Str_invalid
      [] e.kind = "AuthDenied" -> Str_denied
      [] OTHER -> Str_unknown

\* format!("{byte:02X}")
hex_digit(n) == IF n < 10 THEN 48 + n ELSE 55 + n

\* the bytes of the first match arm: A-Z, a-z, 0-9, '-', '_', '.', '~'
Unreserved == (65..90) \cup (97..122) \cup (48..57) \cup {45, 95, 46, 126}

percent_encode_byte_lenient(byte) ==
    IF byte \in Unreserved
    THEN <<byte>>
    ELSE IF byte = 32 THEN <<37, 50, 48>>
    ELSE IF byte < 32 THEN <<byte>>
    ELSE <<37, hex_digit(byte \div 16), hex_digit(byte % 16)>>

percent_encode_byte_plus(byte) ==
    IF byte \in Unreserved THEN <<byte>>
    ELSE IF byte = 32 THEN <<43>>
    ELSE <<37, hex_digit(byte \div 16), hex_digit(byte % 16)>>

\* one iteration of the loop of percent_encode
percent_encode_byte(byte) ==
    IF byte \in Unreserved
    THEN <<byte>>
    ELSE IF byte = 32 THEN <<37, 50, 48>>
    ELSE <<37, hex_digit(byte \div 16), hex_digit(byte % 16)>>

RECURSIVE percent_encode(_)
percent_encode(s) ==
    IF s = <<>> THEN <<>>
    ELSE percent_encode_byte(Head(s)) \o percent_encode(Tail(s))

\* Response::new(Full::new(Bytes::new())): the header-less fallback
fallback_response == [status |-> 200, headers |-> <<>>, body |-> <<>>]

to_grpc_response(e) ==
    LET build(headers) ==
            IF \A i \in 1..Len(headers) : header_value_valid(headers[i][2])
            THEN [status |-> 200, headers |-> headers, body |-> <<>>]
            ELSE fallback_response
    IN build(<< <<Str_content_type, Str_application_grpc>>,
                <<Str_grpc_status, to_string(grpc_status_code(e))>>,
                <<Str_grpc_message, percent_encode(Display(e))>> >>)

(***************************************************************************)
(* src/auth.rs                                                             *)
(***************************************************************************)
\* The Argon2 digest of a password under a salt, as an ideal hash: equal
\* digests only for equal (salt, password).
Argon2_hash(password, salt) == <<salt, password>>

\* A stored hash string: phc = it parses as a PHC string.
StoredHash(phc, salt, password) ==
    [phc |-> phc, salt |-> salt, digest |-> Argon2_hash(password, salt)]

\* A stored hash as the text of its credentials line: the ideal hash is
\* written as its salt and its preimage.
hash_string(stored_hash) == <<36>> \o stored_hash.salt \o <<36>> \o stored_hash.digest[2]

\* PasswordHash::new(stored_hash)
PasswordHash_new(stored_hash) == IF stored_hash.phc THEN Some(stored_hash) ELSE None

\* Argon2::default().verify_password(password, &parsed_hash).is_ok()
verify_password(password, parsed_hash) ==
    Argon2_hash(password, parsed_hash.salt) = parsed_hash.digest

verify_user_unknown_missing(username, password, credentials) ==
    IF username \notin DOMAIN credentials.users THEN Err(AuthMissing)
    ELSE IF PasswordHash_new(credentials.users[username]) = None THEN Err(AuthInvalid)
    ELSE IF ~verify_password(password, PasswordHash_new(credentials.users[username])[1])
    THEN Err(AuthInvalid)
    ELSE Ok(username)

verify_user_names_unknown(username, password, credentials) ==
    IF username \notin DOMAIN credentials.users
    THEN Err(ProxyError("AuthDenied", Str_no_config_for_user \o username \o Str_quote))
    ELSE IF PasswordHash_new(credentials.users[username]) = None THEN Err(AuthInvalid)
    ELSE IF ~verify_password(password, PasswordHash_new(credentials.users[username])[1])
    THEN Err(AuthInvalid)
    ELSE Ok(username)

\* the tail of authenticate: look the user up, parse the stored hash,
\* verify the password against it
verify_user(username, password, credentials) ==
    IF username \notin DOMAIN credentials.users THEN Err(AuthInvalid)
    ELSE IF PasswordHash_new(credentials.users[username]) = None THEN Err(AuthInvalid)
    ELSE IF ~verify_password(password, PasswordHash_new(credentials.users[username])[1])
    THEN Err(AuthInvalid)
    ELSE Ok(username)

\* each step returns AuthInvalid as soon as it fails (the ? operator)
authenticate(auth_header, credentials) ==
    LET split(pair) ==
            IF pair = None THEN Err(AuthInvalid)
            ELSE verify_user(pair[1][1], pair[1][2], credentials)
        text(decoded_str) ==
            IF decoded_str = None THEN Err(AuthInvalid)
            ELSE split(split_once(decoded_str[1], 58))
        bytes(decoded) ==
            IF decoded = None THEN Err(AuthInvalid) ELSE text(from_utf8(decoded[1]))
        base64(encoded) ==
            IF encoded = None THEN Err(AuthInvalid)
            ELSE bytes(STANDARD_decode(trim(encoded[1])))
    IN base64(strip_prefix(auth_header, Str_Basic))

\* authenticate gets as far as its verify_password call: every step before
\* it succeeded (header parsed, user found, stored hash parsed)
calls_verify_password(auth_header, credentials) ==
    LET known(pair) ==
            /\ pair # None
            /\ pair[1][1] \in DOMAIN credentials.users
            /\ PasswordHash_new(credentials.users[pair[1][1]]) # None
        text(decoded_str) == decoded_str # None /\ known(split_once(decoded_str[1], 58))
        bytes(decoded) == decoded # None /\ text(from_utf8(decoded[1]))
        base64(encoded) == encoded # None /\ bytes(STANDARD_decode(trim(encoded[1])))
    IN base64(strip_prefix(auth_header, Str_Basic))

\* grpc_path.strip_prefix('/').unwrap_or(grpc_path)
strip_slash(path) ==
    LET stripped == strip_prefix(path, <<47>>)
    IN IF stripped = None THEN path ELSE stripped[1]

\* str::trim_start_matches('/'): drops every leading '/'
RECURSIVE trim_start_slashes(_)
trim_start_slashes(path) ==
    IF path # <<>> /\ Head(path) = 47 THEN trim_start_slashes(Tail(path)) ELSE path

authorize_trim_all(username, grpc_path, config) ==
    IF username \notin DOMAIN config.users
    THEN Err(ProxyError("AuthDenied", Str_no_config_for_user \o username \o Str_quote))
    ELSE LET allowed_calls == config.users[username].allowed_calls
             call == trim_start_slashes(grpc_path)
         IN IF \E i \in 1..Len(allowed_calls) :
                   allowed_calls[i] = Str_star \/ allowed_calls[i] = call
            THEN Ok(<<>>)
            ELSE Err(ProxyError("AuthDenied",
                     Str_user \o username \o Str_not_allowed_to_call \o call \o Str_quote))

authorize(username, grpc_path, config) ==
    IF username \notin DOMAIN config.users
    THEN Err(ProxyError("AuthDenied", Str_no_config_for_user \o username \o Str_quote))
    ELSE LET allowed_calls == config.users[username].allowed_calls
             call == strip_slash(grpc_path)
         IN IF \E i \in 1..Len(allowed_calls) :
                   allowed_calls[i] = Str_star \/ allowed_calls[i] = call
            THEN Ok(<<>>)
            ELSE Err(ProxyError("AuthDenied",
                     Str_user \o username \o Str_not_allowed_to_call \o call \o Str_quote))

(***************************************************************************)
(* src/proxy.rs                                                            *)
(***************************************************************************)
parse_grpc_path_first_slash(path) ==
    LET trimmed == strip_slash(path)
        split == split_once(trimmed, 47)
    IN IF split # None THEN split[1] ELSE <<trimmed, Str_unknown>>

parse_grpc_path(path) ==
    LET trimmed == strip_slash(path)
        split == rsplit_once(trimmed, 47)
    IN IF split # None THEN split[1] ELSE <<trimmed, Str_unknown>>

\* the user block of handle_request_inner, without the authorization step
resolve_user_no_authz(req, state, path) ==
    LET authenticated(auth_header) ==
            IF auth_header = None
            THEN [stages |-> <<"auth_header">>, r |-> Err(AuthMissing)]
            ELSE [stages |-> <<"auth_header", "authenticate">>,
                  r |-> authenticate(auth_header[1], state.credentials)]
        text(value) == authenticated(IF value = None THEN None ELSE to_str(value[1]))
    IN IF state.skip_auth THEN [stages |-> <<>>, r |-> Ok(Str_Anonymous)]
       ELSE text(headers_get(req.headers, Str_authorization))

\* the user block of handle_request_inner, ignoring skip_auth
resolve_user_no_bypass(req, state, path) ==
    LET decided(user, authz) ==
            [stages |-> <<"auth_header", "authenticate", "authorize">>,
             r |-> IF authz.ok THEN user ELSE authz]
        authorized(user) ==
            IF ~user.ok THEN [stages |-> <<"auth_header", "authenticate">>, r |-> user]
            ELSE decided(user, authorize(user.val, path, state.config))
        authenticated(auth_header) ==
            IF auth_header = None
            THEN [stages |-> <<"auth_header">>, r |-> Err(AuthMissing)]
            ELSE authorized(authenticate(auth_header[1], state.credentials))
        text(value) == authenticated(IF value = None THEN None ELSE to_str(value[1]))
    IN text(headers_get(req.headers, Str_authorization))

\* `let username = if state.skip_auth { .. } else { .. };` of
\* handle_request_inner: the stages it ran and Ok(username) or Err(error)
resolve_user(req, state, path) ==
    LET decided(user, authz) ==
            [stages |-> <<"auth_header", "authenticate", "authorize">>,
             r |-> IF authz.ok THEN user ELSE authz]
        authorized(user) ==
            IF ~user.ok THEN [stages |-> <<"auth_header", "authenticate">>, r |-> user]
            ELSE decided(user, authorize(user.val, path, state.config))
        authenticated(auth_header) ==
            IF auth_header = None
            THEN [stages |-> <<"auth_header">>, r |-> Err(AuthMissing)]
            ELSE authorized(authenticate(auth_header[1], state.credentials))
        text(value) == authenticated(IF value = None THEN None ELSE to_str(value[1]))
    IN IF state.skip_auth THEN [stages |-> <<>>, r |-> Ok(Str_Anonymous)]
       ELSE text(headers_get(req.headers, Str_authorization))

\* handle_request_inner up to its only suspension point, the upstream call:
\* the stages it ran, and either the error it returned or the request it
\* handed to the upstream client together with the user it runs as.
handle_request_inner(req, state, path) ==
    LET forward(user, upstream_uri) ==
            IF ~upstream_uri.ok
            THEN [stages |-> user.stages \o <<"rewrite">>,
                  result |-> Err(ProxyError("UpstreamConnect",
                                            Str_invalid_upstream_URI \o upstream_uri.err))]
            ELSE [stages |-> user.stages \o <<"rewrite", "send">>,
                  result |-> Ok([upstream_req |->
                                     [req EXCEPT !.uri = upstream_uri.val,
                                                 !.headers = headers_remove(@, Str_authorization)],
                                 username |-> user.r.val])]
        resolved(user) ==
            IF ~user.r.ok THEN [stages |-> user.stages, result |-> user.r]
            ELSE forward(user, parse_uri(Str_http \o state.config.upstream_address \o path))
    IN resolved(resolve_user(req, state, path))

\* handle_request_inner runs verify_password for req: bypass is off and the
\* Authorization value is text that authenticate takes to that call
runs_verify_password(req, state) ==
    LET text(header) ==
            header # None /\ calls_verify_password(header[1], state.credentials)
        value(v) == text(IF v = None THEN None ELSE to_str(v[1]))
    IN ~state.skip_auth /\ value(headers_get(req.headers, Str_authorization))

record_success_unobserved(m, username, path, response) ==
    LET sm == parse_grpc_path(path)
        value == headers_get(response.headers, Str_grpc_status)
        text == IF value = None THEN None ELSE to_str(value[1])
        grpc_status == IF text = None THEN Str_zero ELSE text[1]
    IN [m EXCEPT !.requests_total = @ (+) SetToBag({<<username, sm[1], sm[2], grpc_status>>})]

\* the Ok arm of handle_request: one latency observation, one requests_total
record_success(m, username, path, response) ==
    LET sm == parse_grpc_path(path)
        value == headers_get(response.headers, Str_grpc_status)
        text == IF value = None THEN None ELSE to_str(value[1])
        grpc_status == IF text = None THEN Str_zero ELSE text[1]
    IN [m EXCEPT !.request_duration_seconds = @ + 1,
                 !.requests_total = @ (+) SetToBag({<<username, sm[1], sm[2], grpc_status>>})]

record_failure_uncounted(m, proxy_err, path) ==
    LET sm == parse_grpc_path(path)
        code == to_string(grpc_status_code(proxy_err))
    IN IF proxy_err.kind \in {"AuthMissing", "AuthInvalid", "AuthDenied"}
       THEN [m EXCEPT !.auth_failures_total = @ (+) SetToBag({auth_failure_reason(proxy_err)}),
                      !.requests_total =
                          @ (+) SetToBag({<<Str_unauthenticated, sm[1], sm[2], code>>})]
       ELSE IF proxy_err.kind \in {"UpstreamConnect", "UpstreamRequest"}
       THEN [m EXCEPT !.upstream_errors_total = @ + 1]
       ELSE m

\* the Err arm of handle_request
record_failure(m, proxy_err, path) ==
    LET sm == parse_grpc_path(path)
        code == to_string(grpc_status_code(proxy_err))
    IN IF proxy_err.kind \in {"AuthMissing", "AuthInvalid", "AuthDenied"}
       THEN [m EXCEPT !.auth_failures_total = @ (+) SetToBag({auth_failure_reason(proxy_err)}),
                      !.requests_total =
                          @ (+) SetToBag({<<Str_unauthenticated, sm[1], sm[2], code>>})]
       ELSE IF proxy_err.kind \in {"UpstreamConnect", "UpstreamRequest"}
       THEN [m EXCEPT !.upstream_errors_total = @ + 1,
                      !.requests_total = @ (+) SetToBag({<<Str_error, sm[1], sm[2], code>>})]
       ELSE m

\* response.map(Either::Left) / .map(Either::Right)
map_either(response, side) ==
    [either |-> side, status |-> response.status,
     headers |-> response.headers, body |-> response.body]

return_Ok_rebuilt(response) ==
    Ok(map_either([response EXCEPT !.headers = headers_remove(@, Str_grpc_message)], "Left"))

\* what the Ok arm of handle_request returns to the connection
return_Ok(response) == Ok(map_either(response, "Left"))

return_Err_propagated(proxy_err) == Err(proxy_err)

\* what the Err arm of handle_request returns to the connection
return_Err(proxy_err) == Ok(map_either(to_grpc_response(proxy_err), "Right"))

\* the response the connection gets out of the Result of handle_request
served(result) == IF result.ok THEN Some(result.val) ELSE None

(***************************************************************************)
(* Deployments and traffic the model is run on.                            *)
(***************************************************************************)
Salt1 == <<115, 49>>

Salt2 == <<115, 50>>

\* the credentials file: alice:pw, carol:p:w, e-acute:x, and mallory whose
\* stored hash is not a PHC string
LoadedCredentials ==
    [users |-> (Txt_alice :> StoredHash(TRUE, Salt1, Txt_pw))
               @@ (Txt_carol :> StoredHash(TRUE, Salt2, Txt_p_w))
               @@ (Txt_eacute :> StoredHash(TRUE, Salt1, Txt_x))
               @@ (Txt_mallory :> StoredHash(FALSE, Salt2, Txt_pw))]

\* Credentials::empty()
EmptyCredentials == [users |-> <<>>]

Policy1 ==
    (Txt_alice :> [allowed_calls |-> <<Txt_call_Get>>])
        @@ (Txt_carol :> [allowed_calls |-> <<Str_star>>])

Policy2 ==
    (Txt_alice :> [allowed_calls |-> <<Txt_call_Delete, Str_star>>])
        @@ (Txt_carol :> [allowed_calls |-> <<>>])
        @@ (Txt_bob :> [allowed_calls |-> <<Txt_call_Get>>])

Policies == {Policy1, Policy2}

Config(upstream_address, users) == [upstream_address |-> upstream_address, users |-> users]

\* NO_AUTH and the config file of each deployment
Deployments ==
    { [skip_auth |-> FALSE, config |-> Config(Txt_up_good, Policy1)],
      [skip_auth |-> FALSE, config |-> Config(Txt_up_good, Policy2)],
      [skip_auth |-> FALSE, config |-> Config(Txt_up_bad, Policy1)],
      [skip_auth |-> TRUE, config |-> Config(Txt_up_good, Policy1)],
      [skip_auth |-> TRUE, config |-> Config(Txt_up_bad, Policy2)] }

Hdr_te == <<Txt_te, Txt_trailers>>

Hdr_ct == <<Str_content_type, Str_application_grpc>>

Authz(value) == <<Str_authorization, value>>

InboundRequest(path, query, headers) ==
    [method |-> Txt_POST,
     uri |-> [scheme |-> Str_http, authority |-> Txt_proxy, path |-> path, query |-> query],
     headers |-> headers,
     body |-> Txt_body]

SampleRequests ==
    { InboundRequest(Txt_pkg_Get, None, <<Hdr_ct, Hdr_te>>),
      InboundRequest(Txt_pkg_Get, None, <<Authz(Hdr_opaque), Hdr_te>>),
      InboundRequest(Txt_pkg_Get, None, <<Authz(Txt_Bearer)>>),
      InboundRequest(Txt_pkg_Get, None, <<Authz(Hdr_bad_b64)>>),
      InboundRequest(Txt_pkg_Get, None, <<Authz(Hdr_bad_utf8)>>),
      InboundRequest(Txt_pkg_Get, None, <<Authz(Hdr_no_colon)>>),
      InboundRequest(Txt_pkg_Get, None, <<Authz(Hdr_bob)>>),
      InboundRequest(Txt_pkg_Get, None, <<Authz(Hdr_alice_wrong)>>),
      InboundRequest(Txt_pkg_Get, None, <<Authz(Hdr_mallory)>>),
      InboundRequest(Txt_pkg_Delete, None, <<Authz(Hdr_alice)>>),
      InboundRequest(Txt_pkg_Get2, None, <<Authz(Hdr_alice)>>),
      InboundRequest(Txt_pkg_get_lower, None, <<Authz(Hdr_alice)>>),
      InboundRequest(Txt_a_b_c, Some(Txt_q), <<Authz(Hdr_carol), Hdr_ct>>),
      InboundRequest(Txt_pkg_Get, None, <<Authz(Hdr_eacute)>>),
      InboundRequest(Txt_pkg_Get, None, <<Hdr_ct, Authz(Hdr_alice), Hdr_te, Authz(Txt_Bearer)>>) }

\* Under Policy2 the requests whose decision differs from Policy1: alice's
\* Delete (allowed twice over), carol (empty list), bob (a policy entry but
\* no credentials), e-acute (no policy entry)
Policy2Requests ==
    { InboundRequest(Txt_pkg_Delete, None, <<Authz(Hdr_alice)>>),
      InboundRequest(Txt_a_b_c, Some(Txt_q), <<Authz(Hdr_carol), Hdr_ct>>),
      InboundRequest(Txt_pkg_Get, None, <<Authz(Hdr_bob)>>),
      InboundRequest(Txt_pkg_Get, None, <<Authz(Hdr_eacute)>>) }

\* In bypass mode the pipeline never reads the Authorization value, so one
\* request per shape of header list is sent: none, unusable, not Basic,
\* valid with a query, valid twice.
BypassRequests ==
    { InboundRequest(Txt_pkg_Get, None, <<Hdr_ct, Hdr_te>>),
      InboundRequest(Txt_pkg_Get, None, <<Authz(Hdr_opaque), Hdr_te>>),
      InboundRequest(Txt_pkg_Get, None, <<Authz(Txt_Bearer)>>),
      InboundRequest(Txt_a_b_c, Some(Txt_q), <<Authz(Hdr_carol), Hdr_ct>>),
      InboundRequest(Txt_pkg_Get, None, <<Hdr_ct, Authz(Hdr_alice), Hdr_te, Authz(Txt_Bearer)>>) }

\* upstream responses: without grpc-status, with grpc-status 5, and with a
\* grpc-status that is a legal header value but not visible ASCII
UpstreamResponses ==
    { [status |-> 200, headers |-> <<Hdr_ct>>, body |-> Txt_body],
      [status |-> 200,
       headers |-> <<Hdr_ct, <<Str_grpc_status, Txt_five>>, <<Str_grpc_message, Txt_not_found>>>>,
       body |-> <<>>],
      [status |-> 200, headers |-> <<Hdr_ct, <<Str_grpc_status, Txt_eacute>>>>, body |-> <<>>] }

\* what the transport can report instead of a response: failure = "connect"
\* when no connection to the upstream could be established, "request" when
\* the error came once the attempt had started; text = its Display
TransportErrors ==
    { [failure |-> "connect", text |-> Txt_refused],
      [failure |-> "request", text |-> Txt_nasty] }

(***************************************************************************)
(* State.                                                                  *)
(***************************************************************************)
VARIABLES
    skip_auth,      \* AppState.skip_auth
    config,         \* AppState.config, None until loaded
    credentials,    \* AppState.credentials, None until loaded
    metrics,        \* AppState.metrics
    main_pc,        \* position of main: "load_config", "load_credentials",
                    \* "bind", "accept" (the loop), "exited"
    exit_error,     \* the error main returned
    listener,       \* the client-facing listener, once bound
    conn,           \* per connection: "idle" (not accepted yet), "open", "closed"
    worker_threads, \* number of worker threads of the runtime
    accept_warnings, \* "accept error" warnings main has logged
    metrics_task,   \* the task running serve_metrics: pc "unspawned", "bind",
                    \* "accept" (its loop) or "returned", and the error returned
    pc,             \* per request: "new", "verifying" (inside verify_password),
                    \* "awaiting" (the upstream call), "done"
    request,        \* per request: the inbound request, once received
    stages,         \* per request: the pipeline stages run, in order
    username,       \* per request: the user it is forwarded as
    upstream_sent,  \* per request: the requests handed to the upstream client
    transport,      \* per request: what the transport reported
    received,       \* per request: the response the upstream returned
    outcome,        \* per request: the ProxyOutcome
    response,       \* per request: the response returned to the connection
    applied         \* last application of a pure function (SpecPure)

vars == <<skip_auth, config, credentials, metrics, main_pc, exit_error, listener, conn,
          worker_threads, accept_warnings, metrics_task, pc, request, stages, username,
          upstream_sent, transport, received, outcome, response, applied>>

app_vars == <<skip_auth, config, credentials>>

main_vars ==
    <<main_pc, exit_error, listener, conn, worker_threads, accept_warnings, metrics_task>>

request_vars ==
    <<pc, request, stages, username, upstream_sent, transport, received, outcome, response>>

AppState == [config |-> config, credentials |-> credentials, skip_auth |-> skip_auth]

\* MetricsState::new()
NewMetrics ==
    [requests_total |-> EmptyBag, request_duration_seconds |-> 0,
     auth_failures_total |-> EmptyBag, upstream_errors_total |-> 0,
     active_connections |-> 0]

NotApplied == [fn |-> "none", args |-> <<>>, result |-> <<>>]

\* no request has arrived
NoRequests ==
    /\ pc = [r \in Requests |-> "new"]
    /\ request = [r \in Requests |-> None]
    /\ stages = [r \in Requests |-> <<>>]
    /\ username = [r \in Requests |-> None]
    /\ upstream_sent = [r \in Requests |-> <<>>]
    /\ transport = [r \in Requests |-> None]
    /\ received = [r \in Requests |-> None]
    /\ outcome = [r \in Requests |-> None]
    /\ response = [r \in Requests |-> None]
    /\ applied = NotApplied

\* main(): the state once start-up has succeeded and the first connection
\* has been accepted, on a host with MaxWorkers cores
Init ==
    /\ \E d \in Deployments : skip_auth = d.skip_auth /\ config = d.config
    /\ credentials = IF skip_auth THEN EmptyCredentials ELSE LoadedCredentials
    /\ metrics = [NewMetrics EXCEPT !.active_connections = 1]
    /\ main_pc = "accept"
    /\ exit_error = None
    /\ listener = Some(Txt_proxy)
    /\ conn = [c \in Connections |-> IF c = 1 THEN "open" ELSE "idle"]
    /\ worker_threads = MaxWorkers
    /\ accept_warnings = 0
    /\ metrics_task = [pc |-> "accept", result |-> None]
    /\ NoRequests

\* a worker thread of the runtime is not inside verify_password
WorkerFree == Cardinality({r \in Requests : pc[r] = "verifying"}) < worker_threads

\* handle_request for req from handle_request_inner's first statement to
\* its suspension at the upstream call, or to the synthetic response
RunPipeline(r, req) ==
    \E inner \in {handle_request_inner(req, AppState, req.uri.path)} :
        LET path == req.uri.path
        IN
        /\ request' = [request EXCEPT ![r] = Some(req)]
        /\ stages' = [stages EXCEPT ![r] = inner.stages]
        /\ IF inner.result.ok
           THEN /\ pc' = [pc EXCEPT ![r] = "awaiting"]
                /\ username' = [username EXCEPT ![r] = Some(inner.result.val.username)]
                /\ upstream_sent' =
                       [upstream_sent EXCEPT ![r] = Append(@, inner.result.val.upstream_req)]
                /\ UNCHANGED <<metrics, outcome, response>>
           ELSE /\ pc' = [pc EXCEPT ![r] = "done"]
                /\ metrics' = record_failure(metrics, inner.result.err, path)
                /\ outcome' = [outcome EXCEPT ![r] = Some(inner.result.err)]
                /\ response' = [response EXCEPT ![r] = served(return_Err(inner.result.err))]
                /\ UNCHANGED <<username, upstream_sent>>

\* handle_request, from the arrival of req on an open connection: to the
\* call of verify_password when the request gets that far, else to the
\* upstream call or to the synthetic response of a failure
HandleRequest(r, req) ==
    /\ main_pc = "accept"
    /\ \E c \in Connections : conn[c] = "open"
    /\ pc[r] = "new"
    /\ WorkerFree
    /\ IF runs_verify_password(req, AppState)
       THEN /\ pc' = [pc EXCEPT ![r] = "verifying"]
            /\ request' = [request EXCEPT ![r] = Some(req)]
            /\ stages' = [stages EXCEPT ![r] = <<"auth_header", "authenticate">>]
            /\ UNCHANGED <<metrics, username, upstream_sent, outcome, response>>
       ELSE RunPipeline(r, req)
    /\ UNCHANGED <<app_vars, main_vars, transport, received, applied>>

\* verify_password returns, on the worker thread it has held since the
\* request arrived; handle_request goes on from there
VerifyPassword(r) ==
    /\ pc[r] = "verifying"
    /\ RunPipeline(r, request[r][1])
    /\ UNCHANGED <<app_vars, main_vars, transport, received, applied>>

\* handle_request resumed by an upstream response: the Ok arm
UpstreamResponse(r, upstream_response) ==
    /\ pc[r] = "awaiting"
    /\ WorkerFree
    /\ transport' = [transport EXCEPT ![r] = Some("response")]
    /\ received' = [received EXCEPT ![r] = Some(upstream_response)]
    /\ metrics' = record_success(metrics, username[r][1], request[r][1].uri.path,
                                 upstream_response)
    /\ outcome' = [outcome EXCEPT ![r] = Some(ProxyError("Success", <<>>))]
    /\ response' = [response EXCEPT ![r] = served(return_Ok(upstream_response))]
    /\ pc' = [pc EXCEPT ![r] = "done"]
    /\ UNCHANGED <<app_vars, main_vars, request, stages, username, upstream_sent, applied>>

\* handle_request resumed by a transport error: map_err, then the Err arm
UpstreamError(r, error) ==
    /\ pc[r] = "awaiting"
    /\ WorkerFree
    /\ transport' = [transport EXCEPT ![r] = Some(error.failure)]
    /\ LET proxy_err == ProxyError("UpstreamRequest", error.text)
       IN /\ metrics' = record_failure(metrics, proxy_err, request[r][1].uri.path)
          /\ outcome' = [outcome EXCEPT ![r] = Some(proxy_err)]
          /\ response' = [response EXCEPT ![r] = served(return_Err(proxy_err))]
    /\ pc' = [pc EXCEPT ![r] = "done"]
    /\ UNCHANGED <<app_vars, main_vars, request, stages, username, upstream_sent,
                   received, applied>>

\* the requests clients send to the deployment
Traffic ==
    IF skip_auth THEN BypassRequests
    ELSE IF config.users = Policy2 THEN Policy2Requests
    ELSE SampleRequests

Next ==
    \/ \E r \in Requests, req \in Traffic : HandleRequest(r, req)
    \/ \E r \in Requests : VerifyPassword(r)
    \/ \E r \in Requests, upstream_response \in UpstreamResponses :
           UpstreamResponse(r, upstream_response)
    \/ \E r \in Requests, error \in TransportErrors : UpstreamError(r, error)

Spec == Init /\ [][Next]_vars

(***************************************************************************)
(* src/main.rs: start-up, the accept loop and the connection tasks.        *)
(***************************************************************************)
try_start_logged(result, next) == [pc |-> next, exit |-> None]

\* the `?` after a start-up call: main goes on to `next`, or returns the error
try_start(result, next) ==
    IF result.ok THEN [pc |-> next, exit |-> None]
    ELSE [pc |-> "exited", exit |-> Some(result.err)]

\* state.metrics.active_connections.inc()
connection_accepted(m) == [m EXCEPT !.active_connections = @ + 1]

connection_finished_unless_error(m, result) ==
    IF result.ok THEN [m EXCEPT !.active_connections = @ - 1] ELSE m

\* state.metrics.active_connections.dec(), whatever serve_connection returned
connection_finished(m, result) == [m EXCEPT !.active_connections = @ - 1]

accept_error_returns(warnings) == [pc |-> "exited", warnings |-> warnings + 1]

\* the Err arm of the match on listener.accept(): one warning, and the loop
\* goes round
accept_error(warnings) == [pc |-> "accept", warnings |-> warnings + 1]

\* CONFIG_PATH and the file it names: a loadable config, or none
ConfigResults ==
    {Ok(Config(Txt_up_good, Policy1)),
     Err(ProxyError("ConfigLoad", Str_CONFIG_PATH_not_set))}

\* CREDENTIALS_FILE and the file it names; not read in bypass mode
CredentialsResults ==
    IF skip_auth THEN {Ok(EmptyCredentials)}
    ELSE {Ok(LoadedCredentials),
          Err(ProxyError("CredentialsLoad", Str_CREDENTIALS_FILE_not_set))}

\* TcpListener::bind(listen_address)
BindResults == {Ok(Txt_proxy), Err(ProxyError("ServerBind", Txt_bind_refused))}

\* TcpListener::bind(addr) in serve_metrics
MetricsBindResults == {Ok(<<>>), Err(ProxyError("ServerBind", Txt_metrics_refused))}

\* serve_metrics up to its loop: the `?` after the bind
serve_metrics_bind(result) ==
    IF result.ok THEN [pc |-> "accept", result |-> None]
    ELSE [pc |-> "returned", result |-> Some(result.err)]

\* what serve_connection returns when a connection ends
ServeResults == {Ok(<<>>), Err(Txt_reset)}

\* the process starts: NO_AUTH is read, nothing is loaded
InitMain ==
    /\ skip_auth \in BOOLEAN
    /\ config = None
    /\ credentials = None
    /\ metrics = NewMetrics
    /\ main_pc = "load_config"
    /\ exit_error = None
    /\ listener = None
    /\ conn = [c \in Connections |-> "idle"]
    /\ worker_threads \in 1..MaxWorkers
    /\ accept_warnings = 0
    /\ metrics_task = [pc |-> "unspawned", result |-> None]
    /\ NoRequests

\* CONFIG_PATH is read and load_config called
LoadConfig(result) ==
    /\ main_pc = "load_config"
    /\ main_pc' = try_start(result, "load_credentials").pc
    /\ exit_error' = try_start(result, "load_credentials").exit
    /\ config' = IF result.ok THEN result.val ELSE config
    /\ UNCHANGED <<skip_auth, credentials, metrics, listener, conn, worker_threads,
                   accept_warnings, metrics_task, request_vars, applied>>

\* Credentials::empty() in bypass mode, else CREDENTIALS_FILE is read and
\* load_credentials called
LoadCredentials(result) ==
    /\ main_pc = "load_credentials"
    /\ main_pc' = try_start(result, "bind").pc
    /\ exit_error' = try_start(result, "bind").exit
    /\ credentials' = IF result.ok THEN result.val ELSE credentials
    /\ UNCHANGED <<skip_auth, config, metrics, listener, conn, worker_threads,
                   accept_warnings, metrics_task, request_vars, applied>>

\* the shared state is built, serve_metrics spawned (its JoinHandle dropped),
\* and the client-facing listener bound
Bind(result) ==
    /\ main_pc = "bind"
    /\ main_pc' = try_start(result, "accept").pc
    /\ exit_error' = try_start(result, "accept").exit
    /\ listener' = IF result.ok THEN Some(result.val) ELSE listener
    /\ metrics_task' = [pc |-> "bind", result |-> None]
    /\ UNCHANGED <<app_vars, metrics, conn, worker_threads, accept_warnings, request_vars,
                   applied>>

\* one round of the accept loop: connections are numbered as accepted
Accept(c) ==
    /\ main_pc = "accept"
    /\ listener # None
    /\ conn[c] = "idle"
    /\ \A b \in Connections : b < c => conn[b] # "idle"
    /\ conn' = [conn EXCEPT ![c] = "open"]
    /\ metrics' = connection_accepted(metrics)
    /\ UNCHANGED <<app_vars, main_pc, exit_error, listener, worker_threads,
                   accept_warnings, metrics_task, request_vars, applied>>

\* listener.accept() fails: Err(e) => { warn!("accept error"); continue }
AcceptError ==
    /\ main_pc = "accept"
    /\ listener # None
    /\ accept_warnings < MaxAcceptErrors
    /\ main_pc' = accept_error(accept_warnings).pc
    /\ accept_warnings' = accept_error(accept_warnings).warnings
    /\ UNCHANGED <<app_vars, metrics, exit_error, listener, conn, worker_threads,
                   metrics_task, request_vars, applied>>

\* the task spawned for serve_metrics binds the metrics address: it goes on
\* to its accept loop, or returns the error to a JoinHandle nobody holds
ServeMetricsBind(result) ==
    /\ metrics_task.pc = "bind"
    /\ main_pc # "exited"
    /\ WorkerFree
    /\ metrics_task' = serve_metrics_bind(result)
    /\ UNCHANGED <<app_vars, metrics, main_pc, exit_error, listener, conn, worker_threads,
                   accept_warnings, request_vars, applied>>

\* the task of connection c: serve_connection returns, the gauge goes down
ServeConnectionDone(c, result) ==
    /\ conn[c] = "open"
    /\ WorkerFree
    /\ conn' = [conn EXCEPT ![c] = "closed"]
    /\ metrics' = connection_finished(metrics, result)
    /\ UNCHANGED <<app_vars, main_pc, exit_error, listener, worker_threads,
                   accept_warnings, metrics_task, request_vars, applied>>

\* the requests, upstream responses and transport errors of the runs that
\* start with the process
MainTraffic ==
    { InboundRequest(Txt_pkg_Get, None, <<Hdr_ct, Hdr_te>>),
      InboundRequest(Txt_pkg_Get, None, <<Hdr_ct, Authz(Hdr_alice), Hdr_te, Authz(Txt_Bearer)>>) }

MainResponses == {[status |-> 200, headers |-> <<Hdr_ct>>, body |-> Txt_body]}

MainErrors == {[failure |-> "connect", text |-> Txt_refused]}

NextMain ==
    \/ \E result \in ConfigResults : LoadConfig(result)
    \/ \E result \in CredentialsResults : LoadCredentials(result)
    \/ \E result \in BindResults : Bind(result)
    \/ \E c \in Connections : Accept(c)
    \/ AcceptError
    \/ \E result \in MetricsBindResults : ServeMetricsBind(result)
    \/ \E c \in Connections, result \in ServeResults : ServeConnectionDone(c, result)
    \/ \E r \in Requests, req \in MainTraffic :
           \* requests are numbered as they arrive
           /\ \A q \in Requests : q < r => pc[q] # "new"
           /\ HandleRequest(r, req)
    \/ \E r \in Requests : VerifyPassword(r)
    \/ \E r \in Requests, upstream_response \in MainResponses :
           UpstreamResponse(r, upstream_response)
    \/ \E r \in Requests, error \in MainErrors : UpstreamError(r, error)

SpecMain == InitMain /\ [][NextMain]_vars

(***************************************************************************)
(* The pure functions applied to inputs of their whole domain.             *)
(***************************************************************************)
ProbeDetails == {<<>>, Txt_refused, Txt_nasty, Txt_eacute}

ProbeErrors ==
    {AuthMissing, AuthInvalid}
        \cup {ProxyError(kind, detail) :
                 kind \in ErrorKinds \ {"AuthMissing", "AuthInvalid"}, detail \in ProbeDetails}

ProbeUsers == {Txt_alice, Txt_bob, Txt_carol, Txt_eacute}

ProbePaths ==
    {Txt_pkg_Get, Txt_pkg_Get2, Txt_pkg_get_lower, Txt_pkg_Delete, Txt_call_Get,
     Txt_a_b_c, <<47>>, <<>>}

ProbeConfigs == {Config(Txt_up_good, users) : users \in Policies \cup {<<>>}}

\* bytes of every class of percent_encode: 'A', 'z', '0', '-', space, '%',
\* '+', line feed, and the two bytes of e-acute
ProbeBytes == {65, 122, 48, 45, 32, 37, 43, 10, 195, 169}

RECURSIVE TextsUpTo(_)
TextsUpTo(n) ==
    IF n = 0 THEN {<<>>}
    ELSE TextsUpTo(n - 1)
             \cup {Append(s, b) : s \in {x \in TextsUpTo(n - 1) : Len(x) = n - 1},
                                  b \in ProbeBytes}

ProbeTexts == TextsUpTo(MaxTextLen)

LabelPaths == ProbePaths \cup {Txt_noslash, Txt_pkg_Method, <<47, 47, 120>>, <<120, 47>>}

Apply_percent_encode(s) ==
    /\ applied.fn = "none"
    /\ applied' = [fn |-> "percent_encode", args |-> <<s>>, result |-> percent_encode(s)]
    /\ UNCHANGED <<app_vars, main_vars, metrics, request_vars>>

\* parse_grpc_path(path), and the label sets both arms of handle_request
\* write for a request with that path
Apply_parse_grpc_path(path, upstream_response, proxy_err) ==
    /\ applied.fn = "none"
    /\ applied' =
           [fn |-> "parse_grpc_path", args |-> <<path, upstream_response, proxy_err>>,
            result |->
                [parsed |-> parse_grpc_path(path),
                 on_success |->
                     BagToSet(record_success(NewMetrics, Txt_alice, path,
                                             upstream_response).requests_total),
                 on_failure |->
                     BagToSet(record_failure(NewMetrics, proxy_err, path).requests_total)]]
    /\ UNCHANGED <<app_vars, main_vars, metrics, request_vars>>

Apply_grpc_status_code(e) ==
    /\ applied.fn = "none"
    /\ applied' = [fn |-> "grpc_status_code", args |-> <<e>>, result |-> grpc_status_code(e)]
    /\ UNCHANGED <<app_vars, main_vars, metrics, request_vars>>

Apply_authorize(user, grpc_path, cfg) ==
    /\ applied.fn = "none"
    /\ applied' = [fn |-> "authorize", args |-> <<user, grpc_path, cfg>>,
                   result |-> authorize(user, grpc_path, cfg)]
    /\ UNCHANGED <<app_vars, main_vars, metrics, request_vars>>

\* the inputs a function is applied to: each run applies one function once
Inputs(S) == IF applied.fn = "none" THEN S ELSE {}

NextPure ==
    \/ \E s \in Inputs(ProbeTexts) : Apply_percent_encode(s)
    \/ \E path \in Inputs(LabelPaths), upstream_response \in UpstreamResponses,
          proxy_err \in {AuthInvalid, ProxyError("UpstreamRequest", Txt_refused)} :
           Apply_parse_grpc_path(path, upstream_response, proxy_err)
    \/ \E e \in Inputs(ProbeErrors) : Apply_grpc_status_code(e)
    \/ \E user \in Inputs(ProbeUsers), grpc_path \in ProbePaths, cfg \in ProbeConfigs :
           Apply_authorize(user, grpc_path, cfg)

SpecPure == Init /\ [][NextPure]_vars

(***************************************************************************)
(* Properties.                                                             *)
(***************************************************************************)

\* C1: every request handed to the upstream client carries no Authorization
\* header, in authenticated and in bypass mode alike; its other headers (in
\* order, duplicates included), its method and its body are those of the
\* inbound request.
C1_NoCredentialsUpstream ==
    \A r \in Requests : \A i \in 1..Len(upstream_sent[r]) :
        LET q == request[r][1]
            u == upstream_sent[r][i]
            kept == {k \in 1..Len(q.headers) : q.headers[k][1] # Str_authorization}
            rank(k) == Cardinality({j \in kept : j <= k})
        IN /\ \A k \in 1..Len(u.headers) : u.headers[k][1] # Str_authorization
           /\ Len(u.headers) = Cardinality(kept)
           /\ \A k \in kept : u.headers[rank(k)] = q.headers[k]
           /\ u.method = q.method
           /\ u.body = q.body

\* a request with two Authorization headers and two other headers was sent
\* upstream
C1_Witness ==
    \E r \in Requests :
        /\ Len(upstream_sent[r]) = 1
        /\ Cardinality({k \in 1..Len(request[r][1].headers) :
                            request[r][1].headers[k][1] = Str_authorization}) = 2
        /\ Len(upstream_sent[r][1].headers) = 2

\* C2: with bypass off the stages run in pipeline order starting with the
\* Authorization header check; authorize is evaluated only after authenticate
\* succeeded; the target is rewritten and the request sent only after both
\* succeeded; a request ending in AuthMissing, AuthInvalid or AuthDenied sent
\* nothing upstream; no request is sent upstream more than once.
C2_PipelineOrdering ==
    ~skip_auth =>
        \A r \in Requests : pc[r] # "new" =>
            LET q == request[r][1]
                order == <<"auth_header", "authenticate", "authorize", "rewrite", "send">>
                value == headers_get(q.headers, Str_authorization)
                header == IF value = None THEN None ELSE to_str(value[1])
                authn == IF header = None THEN Err(AuthMissing)
                         ELSE authenticate(header[1], credentials)
                authz == IF authn.ok THEN authorize(authn.val, q.uri.path, config) ELSE authn
                ran(s) == \E i \in 1..Len(stages[r]) : stages[r][i] = s
                kind == IF outcome[r] = None THEN "Pending" ELSE outcome[r][1].kind
            IN /\ Len(stages[r]) \in 1..Len(order)
               /\ stages[r] = SubSeq(order, 1, Len(stages[r]))
               /\ ran("authenticate") => header # None
               /\ ran("authorize") => authn.ok
               /\ ran("rewrite") => authn.ok /\ authz.ok
               /\ Len(upstream_sent[r]) <= 1
               /\ upstream_sent[r] # <<>> => ran("send") /\ authn.ok /\ authz.ok
               /\ kind \in {"AuthMissing", "AuthInvalid", "AuthDenied"} => upstream_sent[r] = <<>>

\* one request was denied by authorize after authenticating, another was
\* sent upstream once and then failed there
C2_Witness ==
    /\ ~skip_auth
    /\ \E r \in Requests :
           /\ outcome[r] # None /\ outcome[r][1].kind = "AuthDenied"
           /\ stages[r] = <<"auth_header", "authenticate", "authorize">>
    /\ \E r \in Requests :
           /\ outcome[r] # None /\ outcome[r][1].kind = "UpstreamRequest"
           /\ Len(upstream_sent[r]) = 1

\* C3: grpc_status_code is defined on every variant and returns AuthMissing
\* 16, AuthInvalid 16, AuthDenied 7, UpstreamConnect 14, UpstreamRequest 13,
\* ConfigLoad 13, CredentialsLoad 13, ServerBind 13, whatever the detail.
C3_StatusMapping ==
    applied.fn = "grpc_status_code" =>
        LET table == ("AuthMissing" :> 16) @@ ("AuthInvalid" :> 16) @@ ("AuthDenied" :> 7)
                     @@ ("UpstreamConnect" :> 14) @@ ("UpstreamRequest" :> 13)
                     @@ ("ConfigLoad" :> 13) @@ ("CredentialsLoad" :> 13)
                     @@ ("ServerBind" :> 13)
        IN /\ DOMAIN table = ErrorKinds
           /\ applied.args[1].kind \in ErrorKinds
           /\ applied.result = table[applied.args[1].kind]

\* the code of an UpstreamConnect error with a non-empty detail was computed
C3_Witness ==
    /\ applied.fn = "grpc_status_code"
    /\ applied.args[1].kind = "UpstreamConnect"
    /\ applied.args[1].detail = Txt_nasty

\* C4: the response of every failed request is the synthetic one: status
\* 200, content-type application/grpc, grpc-status the decimal code of the
\* failure, grpc-message the percent-encoded Display text, each exactly once;
\* it is never the header-less fallback.
C4_FailureResponse ==
    \A r \in Requests :
        (outcome[r] # None /\ outcome[r][1].kind # "Success") =>
            LET e == outcome[r][1]
                resp == response[r][1]
                values(name) == {k \in 1..Len(resp.headers) : resp.headers[k][1] = name}
            IN /\ response[r] # None
               /\ resp.either = "Right"
               /\ resp.status = 200
               /\ resp.headers # fallback_response.headers
               /\ \A name \in {Str_content_type, Str_grpc_status, Str_grpc_message} :
                      Cardinality(values(name)) = 1
               /\ headers_get(resp.headers, Str_content_type) = Some(Str_application_grpc)
               /\ headers_get(resp.headers, Str_grpc_status)
                      = Some(to_string(grpc_status_code(e)))
               /\ headers_get(resp.headers, Str_grpc_message)
                      = Some(percent_encode(Display(e)))
               /\ \A k \in 1..Len(resp.headers) : header_value_valid(resp.headers[k][2])

\* a failure whose detail has a space, quotes, a line feed and a non-ASCII
\* character got its response
C4_Witness ==
    \E r \in Requests :
        /\ outcome[r] # None
        /\ outcome[r][1].kind = "UpstreamRequest"
        /\ outcome[r][1].detail = Txt_nasty
        /\ response[r] # None

\* C5: with bypass off, a request ends in AuthMissing exactly when it has no
\* Authorization value readable as text; with a readable value it ends in
\* AuthInvalid unless the value is "Basic " followed by (whitespace-trimmed)
\* valid base64 of valid UTF-8 text "user:password" whose user (up to the
\* first ':') is in the store and whose password (after the first ':')
\* verifies against the stored hash; in that case authentication succeeds as
\* exactly that user.
C5_AuthenticationOutcome ==
    ~skip_auth =>
        \A r \in Requests : pc[r] \notin {"new", "verifying"} =>
            LET q == request[r][1]
                present == {k \in 1..Len(q.headers) : q.headers[k][1] = Str_authorization}
                first == CHOOSE k \in present : \A j \in present : k <= j
                h == q.headers[first][2]
                usable == present # {} /\ \A i \in 1..Len(h) : h[i] \in 32..126 \/ h[i] = 9
                basic == Len(h) >= 6 /\ SubSeq(h, 1, 6) = Str_Basic
                decoded == STANDARD_decode(trim(SubSeq(h, 7, Len(h))))
                text == decoded[1]
                colons == {i \in 1..Len(text) : text[i] = 58}
                colon == CHOOSE i \in colons : \A j \in colons : i <= j
                user == SubSeq(text, 1, colon - 1)
                password == SubSeq(text, colon + 1, Len(text))
                accepted == /\ basic
                            /\ decoded # None
                            /\ from_utf8(text) # None
                            /\ colons # {}
                            /\ user \in DOMAIN credentials.users
                            /\ credentials.users[user].phc
                            /\ credentials.users[user].digest
                                   = Argon2_hash(password, credentials.users[user].salt)
                kind == IF outcome[r] = None THEN "Pending" ELSE outcome[r][1].kind
                detail == outcome[r][1].detail
            IN /\ kind = "AuthMissing" <=> ~usable
               /\ (usable /\ ~accepted) => kind = "AuthInvalid"
               /\ (usable /\ accepted) =>
                      /\ kind \notin {"AuthMissing", "AuthInvalid"}
                      /\ stages[r][3] = "authorize"
                      /\ username[r] # None => username[r] = Some(user)
                      /\ kind = "AuthDenied" =>
                             detail \in {Str_no_config_for_user \o user \o Str_quote,
                                         Str_user \o user \o Str_not_allowed_to_call
                                             \o strip_slash(q.uri.path) \o Str_quote}

\* a syntactically valid Basic header for the unknown user bob ended in
\* AuthInvalid, and carol, whose password contains ':', was authenticated
C5_Witness ==
    /\ ~skip_auth
    /\ \E r \in Requests :
           /\ outcome[r] = Some(AuthInvalid)
           /\ headers_get(request[r][1].headers, Str_authorization) = Some(Hdr_bob)
    /\ \E r \in Requests : username[r] = Some(Txt_carol)

\* C6: authorize succeeds exactly when the user has a policy entry and "*"
\* or the path minus exactly one leading '/' (compared byte for byte) is one
\* of its allowed_calls; otherwise it fails with AuthDenied.
C6_AuthorizationDecision ==
    applied.fn = "authorize" =>
        LET user == applied.args[1]
            path == applied.args[2]
            users == applied.args[3].users
            call == IF path # <<>> /\ path[1] = 47 THEN Tail(path) ELSE path
            permitted ==
                /\ user \in DOMAIN users
                /\ \E i \in 1..Len(users[user].allowed_calls) :
                       users[user].allowed_calls[i] \in {Str_star, call}
        IN /\ applied.result.ok <=> permitted
           /\ ~applied.result.ok => applied.result.err.kind = "AuthDenied"

\* authorize was asked for "//pkg.Svc/Get" by a user allowed only
\* "pkg.Svc/Get", and denied it
C6_Witness ==
    /\ applied.fn = "authorize"
    /\ applied.args[1] = Txt_alice
    /\ applied.args[2] = Txt_pkg_Get2
    /\ applied.args[3].users = Policy1
    /\ ~applied.result.ok

\* C7 as stated: in bypass mode no request runs the header check,
\* authenticate or authorize, none ends in AuthMissing, AuthInvalid or
\* AuthDenied, auth_failures_total stays empty, every request is sent
\* upstream, and the successful ones are the requests_total entries labelled
\* "Anonymous".
C7_BypassAlwaysForwards ==
    skip_auth =>
        /\ metrics.auth_failures_total = EmptyBag
        /\ LET rt == metrics.requests_total
               anonymous == {l \in BagToSet(rt) : l[1] = Str_Anonymous}
               succeeded == {r \in Requests :
                                outcome[r] # None /\ outcome[r][1].kind = "Success"}
           IN /\ BagCardinality([l \in anonymous |-> rt[l]]) = Cardinality(succeeded)
              /\ \A r \in succeeded :
                     \E l \in anonymous :
                         <<l[2], l[3]>> = parse_grpc_path(request[r][1].uri.path)
        /\ \A r \in Requests : pc[r] # "new" =>
               LET kind == IF outcome[r] = None THEN "Pending" ELSE outcome[r][1].kind
               IN /\ \A i \in 1..Len(stages[r]) :
                         stages[r][i] \notin {"auth_header", "authenticate", "authorize"}
                  /\ kind \notin {"AuthMissing", "AuthInvalid", "AuthDenied"}
                  /\ Len(upstream_sent[r]) = 1

\* C7 amended: as C7, except that a request is sent upstream only when the
\* rewritten target http://{upstream_address}{path} parses; when it does not,
\* nothing is sent and the request ends in UpstreamConnect.
C7_BypassSkipsAuth ==
    skip_auth =>
        /\ metrics.auth_failures_total = EmptyBag
        /\ LET rt == metrics.requests_total
               anonymous == {l \in BagToSet(rt) : l[1] = Str_Anonymous}
               succeeded == {r \in Requests :
                                outcome[r] # None /\ outcome[r][1].kind = "Success"}
           IN /\ BagCardinality([l \in anonymous |-> rt[l]]) = Cardinality(succeeded)
              /\ \A r \in succeeded :
                     \E l \in anonymous :
                         <<l[2], l[3]>> = parse_grpc_path(request[r][1].uri.path)
        /\ \A r \in Requests : pc[r] # "new" =>
               LET kind == IF outcome[r] = None THEN "Pending" ELSE outcome[r][1].kind
                   target == Str_http \o config.upstream_address \o request[r][1].uri.path
               IN /\ \A i \in 1..Len(stages[r]) :
                         stages[r][i] \notin {"auth_header", "authenticate", "authorize"}
                  /\ kind \notin {"AuthMissing", "AuthInvalid", "AuthDenied"}
                  /\ IF parse_uri(target).ok
                     THEN Len(upstream_sent[r]) = 1
                     ELSE upstream_sent[r] = <<>> /\ kind = "UpstreamConnect"

\* in bypass mode a request with a non-Basic Authorization header was
\* forwarded and succeeded
C7_Witness ==
    /\ skip_auth
    /\ \E r \in Requests :
           /\ outcome[r] # None /\ outcome[r][1].kind = "Success"
           /\ headers_get(request[r][1].headers, Str_authorization) = Some(Txt_Bearer)
           /\ Len(upstream_sent[r]) = 1

\* C8: in every state the sum of requests_total over all label sets is the
\* number of completed requests.
C8_OneCountPerRequest ==
    BagCardinality(metrics.requests_total) = Cardinality({r \in Requests : pc[r] = "done"})

\* two requests completed, one with an upstream response and one with an
\* upstream failure, while handled concurrently
C8_Witness ==
    \E r1, r2 \in Requests :
        /\ pc[r1] = "done" /\ outcome[r1][1].kind = "Success"
        /\ pc[r2] = "done" /\ outcome[r2][1].kind = "UpstreamRequest"
        /\ BagCardinality(metrics.requests_total) >= 2

\* C9 as stated: the target of every upstream request is
\* http://{upstream_address} followed by the path and the query of the
\* inbound request.
C9_TargetKeepsPathAndQuery ==
    \A r \in Requests : \A i \in 1..Len(upstream_sent[r]) :
        LET q == request[r][1]
            u == upstream_sent[r][i]
        IN /\ u.uri.scheme = Str_http
           /\ u.uri.authority = config.upstream_address
           /\ u.uri.path = q.uri.path
           /\ u.uri.query = q.uri.query

\* C10 as stated: a request past authorization ends in UpstreamConnect
\* (grpc-status 14) when the rewritten target does not parse or the transport
\* could not connect, and in UpstreamRequest (grpc-status 13) only when the
\* transport failed after the attempt had started.
C10_ForwardingFailureClass ==
    \A r \in Requests : pc[r] = "done" =>
        LET kind == outcome[r][1].kind
            status == headers_get(response[r][1].headers, Str_grpc_status)
            target == Str_http \o config.upstream_address \o request[r][1].uri.path
            authorized == \E i \in 1..Len(stages[r]) : stages[r][i] = "rewrite"
        IN /\ (authorized /\ ~parse_uri(target).ok) =>
                  kind = "UpstreamConnect" /\ status = Some(to_string(14))
           /\ transport[r] = Some("connect") =>
                  kind = "UpstreamConnect" /\ status = Some(to_string(14))
           /\ kind = "UpstreamRequest" =>
                  transport[r] = Some("request") /\ status = Some(to_string(13))

\* C11: every request whose handling has finished was given a response by
\* handle_request, never an error: a request that failed (AuthMissing,
\* AuthInvalid, AuthDenied, UpstreamConnect, UpstreamRequest) got the
\* synthetic response of exactly that failure, a request with an upstream
\* response got the upstream side; recording its metrics did not replace it.
C11_AlwaysResponds ==
    \A r \in Requests : pc[r] = "done" =>
        /\ outcome[r] # None
        /\ response[r] # None
        /\ IF outcome[r][1].kind = "Success"
           THEN response[r][1].either = "Left"
           ELSE /\ outcome[r][1].kind \in {"AuthMissing", "AuthInvalid", "AuthDenied",
                                           "UpstreamConnect", "UpstreamRequest"}
                /\ response[r][1].either = "Right"
                /\ response[r][1].status = 200
                /\ headers_get(response[r][1].headers, Str_grpc_status)
                       = Some(to_string(grpc_status_code(outcome[r][1])))

\* one request finished with the response of an unparsable target, another
\* with the response of a missing header
C11_Witness ==
    /\ \E r \in Requests :
           /\ pc[r] = "done" /\ outcome[r][1].kind = "UpstreamConnect"
           /\ response[r] # None
    /\ \E r \in Requests :
           /\ pc[r] = "done" /\ outcome[r][1].kind = "AuthMissing"
           /\ response[r] # None

\* C12: the response handed to the client for a request that got an upstream
\* response has the status, the headers (order included) and the body of
\* that upstream response, whatever its grpc-status; the metrics recorded
\* for it change nothing in it.
C12_TransparentSuccess ==
    \A r \in Requests : received[r] # None =>
        /\ response[r] # None
        /\ response[r][1].either = "Left"
        /\ response[r][1].status = received[r][1].status
        /\ response[r][1].headers = received[r][1].headers
        /\ response[r][1].body = received[r][1].body

\* an upstream response with grpc-status 5 and a grpc-message, and one with
\* a body and no grpc-status, were both passed on and counted
C12_Witness ==
    /\ \E r \in Requests :
           /\ received[r] # None
           /\ headers_get(received[r][1].headers, Str_grpc_status) = Some(Txt_five)
           /\ headers_get(response[r][1].headers, Str_grpc_message) = Some(Txt_not_found)
    /\ \E r \in Requests :
           /\ received[r] # None
           /\ response[r][1].body = Txt_body
    /\ metrics.request_duration_seconds = 2

\* C13: the step in which a request ends in AuthMissing, AuthInvalid or
\* AuthDenied adds one to requests_total under ("_unauthenticated", service,
\* method, "16" / "16" / "7") and one to auth_failures_total under "missing"
\* / "invalid" / "denied"; the step in which it ends in UpstreamConnect or
\* UpstreamRequest adds one to requests_total under ("_error", service,
\* method, "14" / "13") and one to upstream_errors_total; nothing else in
\* the metrics changes in that step.
C13_FailureMetrics ==
    [][\A r \in Requests :
          (pc[r] # "done" /\ pc'[r] = "done" /\ outcome'[r][1].kind # "Success") =>
              LET kind == outcome'[r][1].kind
                  path == request'[r][1].uri.path
                  rest == IF path # <<>> /\ path[1] = 47 THEN Tail(path) ELSE path
                  cuts == {i \in 1..Len(rest) : rest[i] = 47}
                  last == CHOOSE i \in cuts : \A j \in cuts : j <= i
                  service == IF cuts = {} THEN rest ELSE SubSeq(rest, 1, last - 1)
                  method == IF cuts = {} THEN Str_unknown
                            ELSE SubSeq(rest, last + 1, Len(rest))
                  code == CASE kind \in {"AuthMissing", "AuthInvalid"} -> <<49, 54>>
                            [] kind = "AuthDenied" -> <<55>>
                            [] kind = "UpstreamConnect" -> <<49, 52>>
                            [] OTHER -> <<49, 51>>
                  reason == CASE kind = "AuthMissing" -> Str_missing
                              [] kind = "AuthInvalid" -> Str_invalid
                              [] OTHER -> Str_denied
              IN IF kind \in {"AuthMissing", "AuthInvalid", "AuthDenied"}
                 THEN metrics' =
                          [metrics EXCEPT
                              !.requests_total =
                                  @ (+) SetToBag({<<Str_unauthenticated, service, method, code>>}),
                              !.auth_failures_total = @ (+) SetToBag({reason})]
                 ELSE /\ kind \in {"UpstreamConnect", "UpstreamRequest"}
                      /\ metrics' =
                             [metrics EXCEPT
                                 !.requests_total =
                                     @ (+) SetToBag({<<Str_error, service, method, code>>}),
                                 !.upstream_errors_total = @ + 1]
      ]_vars

\* alice's Delete was denied and another request failed at the upstream:
\* one "denied", one upstream error, two requests_total entries, no latency
\* observation
C13_Witness ==
    /\ \E r \in Requests :
           /\ pc[r] = "done" /\ outcome[r][1].kind = "AuthDenied"
           /\ request[r][1].uri.path = Txt_pkg_Delete
    /\ \E r \in Requests : pc[r] = "done" /\ outcome[r][1].kind = "UpstreamRequest"
    /\ metrics.auth_failures_total = SetToBag({Str_denied})
    /\ metrics.upstream_errors_total = 1
    /\ CopiesIn(<<Str_unauthenticated, SubSeq(Txt_call_Delete, 1, 7),
                  SubSeq(Txt_call_Delete, 9, 14), <<55>>>>, metrics.requests_total) = 1
    /\ BagCardinality(metrics.requests_total) = 2
    /\ metrics.request_duration_seconds = 0

\* C14 as stated: a request that got an upstream response is counted once in
\* requests_total under (username, service, method, status) with status the
\* value of the grpc-status header of the response when it has one and "0"
\* when it has none, and the number of latency observations is the number
\* of requests that got an upstream response.
C14_StatusLabelIsHeaderValue ==
    LET got == {r \in Requests : received[r] # None}
        label(r) ==
            LET value == headers_get(response[r][1].headers, Str_grpc_status)
            IN <<username[r][1]>> \o parse_grpc_path(request[r][1].uri.path)
                   \o <<IF value = None THEN Str_zero ELSE value[1]>>
    IN /\ metrics.request_duration_seconds = Cardinality(got)
       /\ \A r \in got :
              CopiesIn(label(r), metrics.requests_total)
                  = Cardinality({q \in got : label(q) = label(r)})

\* C14 amended: as C14, with status the value of the grpc-status header
\* when the response has one that is visible ASCII text, and "0" when it has
\* none or one that is not such text; the user label is the authenticated
\* user, "Anonymous" in bypass mode.
C14_SuccessMetrics ==
    LET got == {r \in Requests : received[r] # None}
        label(r) ==
            LET value == headers_get(response[r][1].headers, Str_grpc_status)
                readable == value # None
                                /\ \A i \in 1..Len(value[1]) :
                                       value[1][i] \in 32..126 \/ value[1][i] = 9
            IN <<username[r][1]>> \o parse_grpc_path(request[r][1].uri.path)
                   \o <<IF readable THEN value[1] ELSE Str_zero>>
    IN /\ metrics.request_duration_seconds = Cardinality(got)
       /\ \A r \in got :
              /\ IF skip_auth THEN username[r][1] = Str_Anonymous
                 ELSE username[r][1] \in DOMAIN credentials.users
              /\ CopiesIn(label(r), metrics.requests_total)
                     = Cardinality({q \in got : label(q) = label(r)})

\* alice's Get got an upstream response whose grpc-status is not text and
\* was counted under (alice, pkg.Svc, Get, "0"); another request got a
\* response with grpc-status 5
C14_Witness ==
    /\ \E r \in Requests :
           /\ received[r] # None
           /\ username[r] = Some(Txt_alice)
           /\ headers_get(response[r][1].headers, Str_grpc_status) = Some(Txt_eacute)
    /\ CopiesIn(<<Txt_alice, SubSeq(Txt_call_Get, 1, 7), SubSeq(Txt_call_Get, 9, 11),
                  Str_zero>>, metrics.requests_total) = 1
    /\ \E r \in Requests :
           /\ received[r] # None
           /\ headers_get(response[r][1].headers, Str_grpc_status) = Some(Txt_five)
    /\ metrics.request_duration_seconds = 2

C16_PercentEncodingReversible ==
    applied.fn = "percent_encode" =>
        LET s == applied.args[1]
            digits == <<48, 49, 50, 51, 52, 53, 54, 55, 56, 57, 65, 66, 67, 68, 69, 70>>
            plain(b) == \/ (65 <= b /\ b <= 90) \/ (97 <= b /\ b <= 122)
                        \/ (48 <= b /\ b <= 57) \/ b \in {45, 95, 46, 126}
            written(b) == IF plain(b) THEN <<b>>
                          ELSE IF b = 32 THEN <<37, 50, 48>>
                          ELSE <<37, digits[(b \div 16) + 1], digits[(b % 16) + 1]>>
            RECURSIVE expected(_)
            expected(t) == IF t = <<>> THEN <<>> ELSE written(t[1]) \o expected(Tail(t))
            hex(c) == IF 48 <= c /\ c <= 57 THEN c - 48
                      ELSE IF 65 <= c /\ c <= 70 THEN c - 55
                      ELSE IF 97 <= c /\ c <= 102 THEN c - 87
                      ELSE 0 - 1
            RECURSIVE decode(_)
            decode(t) ==
                IF t = <<>> THEN <<>>
                ELSE IF t[1] = 37 /\ Len(t) >= 3 /\ hex(t[2]) >= 0 /\ hex(t[3]) >= 0
                THEN <<16 * hex(t[2]) + hex(t[3])>> \o decode(SubSeq(t, 4, Len(t)))
                ELSE <<t[1]>> \o decode(Tail(t))
        IN /\ applied.result = expected(s)
           /\ decode(applied.result) = s

\* a space followed by the two bytes of e-acute was encoded as "%20%C3%A9"
C16_Witness ==
    /\ applied.fn = "percent_encode"
    /\ applied.args[1] = <<32, 195, 169>>
    /\ applied.result = <<37, 50, 48, 37, 67, 51, 37, 65, 57>>

\* C18: parse_grpc_path drops one leading '/' when there is one and cuts
\* the rest at its last '/' into (before, after), or gives (rest,
\* "unknown") when the rest has no '/': "/pkg.Svc/Method" gives ("pkg.Svc",
\* "Method"), "noslash" gives ("noslash", "unknown"), "/a/b/c" gives
\* ("a/b", "c"); the requests_total labels written for the path by the
\* success arm and by the failure arm carry that same pair.
C18_ServiceMethodLabels ==
    applied.fn = "parse_grpc_path" =>
        LET path == applied.args[1]
            parsed == applied.result.parsed
            rest == IF path # <<>> /\ path[1] = 47 THEN Tail(path) ELSE path
            cuts == {i \in 1..Len(rest) : rest[i] = 47}
            last == CHOOSE i \in cuts : \A j \in cuts : j <= i
        IN /\ parsed = IF cuts = {} THEN <<rest, Str_unknown>>
                       ELSE <<SubSeq(rest, 1, last - 1), SubSeq(rest, last + 1, Len(rest))>>
           /\ path = Txt_pkg_Method => parsed = <<<<112, 107, 103, 46, 83, 118, 99>>, <<77, 101, 116, 104, 111, 100>>>>
           /\ path = Txt_noslash => parsed = <<Txt_noslash, Str_unknown>>
           /\ path = Txt_a_b_c => parsed = <<<<97, 47, 98>>, <<99>>>>
           /\ Cardinality(applied.result.on_success) = 1
           /\ Cardinality(applied.result.on_failure) = 1
           /\ \A l \in applied.result.on_success \cup applied.result.on_failure :
                  <<l[2], l[3]>> = parsed

\* "/a/b/c" was parsed into ("a/b", "c"), and both arms labelled it so
C18_Witness ==
    /\ applied.fn = "parse_grpc_path"
    /\ applied.args[1] = Txt_a_b_c
    /\ applied.result.parsed = <<<<97, 47, 98>>, <<99>>>>
    /\ \E l \in applied.result.on_success : l[2] = <<97, 47, 98>> /\ l[3] = <<99>>
    /\ \E l \in applied.result.on_failure : l[2] = <<97, 47, 98>> /\ l[3] = <<99>>

\* C17: when main has exited it returned the error of the start-up step
\* that failed (ConfigLoad before a config is loaded, CredentialsLoad, only
\* with bypass off, before credentials are loaded, ServerBind before the
\* listener is bound), no connection was accepted and no request handled;
\* the accept loop runs, a connection is accepted and a request handled only
\* with config and credentials loaded, the listener bound and no error.
C17_StartupFailuresFatal ==
    /\ (exit_error # None) <=> (main_pc = "exited")
    /\ main_pc = "exited" =>
           /\ exit_error[1].kind =
                  (IF config = None THEN "ConfigLoad"
                   ELSE IF credentials = None THEN "CredentialsLoad"
                   ELSE "ServerBind")
           /\ exit_error[1].kind = "CredentialsLoad" => ~skip_auth
           /\ listener = None
           /\ \A c \in Connections : conn[c] = "idle"
           /\ \A r \in Requests : pc[r] = "new"
           /\ ~ENABLED NextMain
    /\ (\/ main_pc = "accept"
        \/ \E c \in Connections : conn[c] # "idle"
        \/ \E r \in Requests : pc[r] # "new") =>
           /\ main_pc = "accept"
           /\ exit_error = None
           /\ config # None
           /\ credentials # None
           /\ listener # None

\* with bypass off, config and credentials loaded, the bind failed and main
\* exited with ServerBind
C17_Witness ==
    /\ main_pc = "exited"
    /\ ~skip_auth
    /\ config # None
    /\ credentials = LoadedCredentials
    /\ exit_error = Some(ProxyError("ServerBind", Txt_bind_refused))

\* C19 as stated: while exactly one request is inside verify_password, a
\* request that needs no verification can be taken from an open connection
\* and a request waiting for the upstream can be resumed.
C19_VerificationIsolated ==
    \A r \in Requests :
        (pc[r] = "verifying" /\ \A q \in Requests \ {r} : pc[q] # "verifying") =>
            \A q \in Requests \ {r} :
                /\ (pc[q] = "new" /\ \E c \in Connections : conn[c] = "open") =>
                       ENABLED HandleRequest(q, InboundRequest(Txt_pkg_Get, None,
                                                               <<Hdr_ct, Hdr_te>>))
                /\ pc[q] = "awaiting" =>
                       ENABLED (\E upstream_response \in MainResponses :
                                    UpstreamResponse(q, upstream_response))

\* C20: active_connections is the number of connections accepted and not
\* yet finished, never negative, 0 when none is being served; whatever its
\* value, the next connection can be accepted.
C20_ActiveConnectionsGauge ==
    /\ metrics.active_connections = Cardinality({c \in Connections : conn[c] = "open"})
    /\ metrics.active_connections >= 0
    /\ (\A c \in Connections : conn[c] # "open") => metrics.active_connections = 0
    /\ \A c \in Connections :
           (/\ main_pc = "accept"
            /\ conn[c] = "idle"
            /\ \A b \in Connections : b < c => conn[b] # "idle") => ENABLED Accept(c)

\* the first connection has finished while the second is still served: the
\* gauge went 1, 2, 1 or 1, 0, 1
C20_Witness ==
    /\ conn[1] = "closed"
    /\ conn[2] = "open"
    /\ metrics.active_connections = 1

\* C21: a failed accept leaves main in the accept loop with no exit error
\* and the listener bound, logs one warning, and changes neither the gauge
\* nor a counter, a connection or a request; after failed accepts the next
\* connection can be accepted, and accepting it raises the gauge by one.
C21_AcceptFailuresNotFatal ==
    [][/\ accept_warnings' # accept_warnings =>
              /\ accept_warnings' = accept_warnings + 1
              /\ main_pc' = "accept"
              /\ exit_error' = None
              /\ listener' = listener /\ listener # None
              /\ metrics' = metrics
              /\ conn' = conn
              /\ request_vars' = request_vars
       /\ (accept_warnings > 0 /\ main_pc = "accept") =>
              /\ \A c \in Connections :
                     (conn[c] = "idle" /\ \A b \in Connections : b < c => conn[b] # "idle")
                         => ENABLED Accept(c)
              /\ \A c \in Connections :
                     (conn[c] = "idle" /\ conn'[c] # "idle") =>
                         /\ conn'[c] = "open"
                         /\ metrics'.active_connections = metrics.active_connections + 1
                         /\ main_pc' = "accept"
      ]_vars

\* MaxAcceptErrors accepts failed, both connections were accepted, one is
\* still served, and a request was answered
C21_Witness ==
    /\ accept_warnings = MaxAcceptErrors
    /\ main_pc = "accept"
    /\ conn[1] = "closed"
    /\ conn[2] = "open"
    /\ metrics.active_connections = 1
    /\ \E r \in Requests : pc[r] = "done" /\ response[r] # None

\* C22 as stated: once binding the metrics address has failed (with
\* ServerBind), no client connection is accepted and no request handled, and
\* main does not stay in its accept loop.
C22_MetricsBindFailureFatal ==
    metrics_task.result # None =>
        /\ metrics_task.result[1].kind = "ServerBind"
        /\ \A c \in Connections : conn[c] = "idle"
        /\ \A r \in Requests : pc[r] = "new"
====
